---- MODULE Spec2Model ----
(***************************************************************************)
(* Dota 2 draft analyzer: the knowledge base loader (DataManager) and the  *)
(* query engine (AnalysisCore) of app/core/draft_analyzer_core.py, and the *)
(* Analyze Draft handler (MainApplication.run_analysis) of                 *)
(* app/ui/draft_analyzer_ui.py.                                            *)
(*                                                                         *)
(* Python values are modelled as follows.  A str is a TLA+ string, a list  *)
(* is a sequence, a dict whose iteration order is not observed is a        *)
(* function whose DOMAIN is its key set, and a dict whose order is         *)
(* observed (the mappings the queries return) is a sequence of             *)
(* [key, val] records in insertion order.  A call that may raise returns   *)
(* a record with a "raised" flag.                                          *)
(***************************************************************************)
EXTENDS Integers, Sequences, FiniteSets, TLC

VARIABLES
    pc,                 \* "new" before DataManager(), then "ready" or "crashed"
    data_dir,           \* the files under data_path, as found by the loader
    heroes,             \* DataManager.heroes
    normalized_heroes,  \* DataManager.normalized_heroes
    hero_name_map,      \* DataManager.hero_name_map
    hero_strategies,    \* DataManager.hero_strategies
    last,               \* the latest query call: [op, arg, result]
    repeated,           \* history: the latest call repeated the one before it
    scrollable_frame,   \* MainApplication.scrollable_frame: its child widgets
    analysis            \* history: what the latest run_analysis read and called

kb == <<heroes, normalized_heroes, hero_name_map, hero_strategies>>
ui == <<scrollable_frame, analysis>>
vars == <<pc, data_dir, heroes, normalized_heroes, hero_name_map,
          hero_strategies, last, repeated, scrollable_frame, analysis>>

(***************************************************************************)
(* Bounds of the model.                                                    *)
(***************************************************************************)
MaxEnemies == 2     \* longest opponent list passed to a query
MaxRoster == 2      \* most entries in normalized_heroes.json

(***************************************************************************)
(* str operations.                                                         *)
(***************************************************************************)
UpperCase == "ABCDEFGHIJKLMNOPQRSTUVWXYZ"
LowerCase == "abcdefghijklmnopqrstuvwxyz"

\* the lower-case letter of each upper-case letter
UpperToLower ==
    [c \in {SubSeq(UpperCase, i, i) : i \in 1..Len(UpperCase)} |->
        LET i == CHOOSE j \in 1..Len(UpperCase) : SubSeq(UpperCase, j, j) = c
        IN  SubSeq(LowerCase, i, i)]

\* one character of str.lower()
lower_char(c) == IF c \in DOMAIN UpperToLower THEN UpperToLower[c] ELSE c

\* s.lower()
RECURSIVE lower(_)
lower(s) == IF s = "" THEN "" ELSE lower_char(Head(s)) \o lower(Tail(s))

\* sep.join(parts)
RECURSIVE join(_, _)
join(sep, parts) ==
    IF parts = <<>> THEN ""
    ELSE IF Len(parts) = 1 THEN parts[1]
    ELSE parts[1] \o sep \o join(sep, Tail(parts))

\* sub in text, for str operands
str_in(sub, text) ==
    \E i \in 0..(Len(text) - Len(sub)) : SubSeq(text, i + 1, i + Len(sub)) = sub

\* s.endswith(suffix)
endswith(s, suffix) ==
    /\ Len(suffix) <= Len(s)
    /\ SubSeq(s, Len(s) - Len(suffix) + 1, Len(s)) = suffix

\* s.replace(old, ''), every non-overlapping occurrence from the left
RECURSIVE replace_all(_, _)
replace_all(s, old) ==
    IF Len(s) < Len(old) THEN s
    ELSE IF SubSeq(s, 1, Len(old)) = old
         THEN replace_all(SubSeq(s, Len(old) + 1, Len(s)), old)
         ELSE Head(s) \o replace_all(Tail(s), old)

\* x in a_list
list_in(x, l) == \E i \in 1..Len(l) : l[i] = x

(***************************************************************************)
(* dict operations on insertion-ordered mappings.                          *)
(***************************************************************************)
dict_keys(d) == [i \in 1..Len(d) |-> d[i].key]
dict_has(d, k) == \E i \in 1..Len(d) : d[i].key = k
dict_get(d, k) == d[CHOOSE i \in 1..Len(d) : d[i].key = k].val
\* d[k] = v: a new key goes last, an existing key keeps its place
dict_set(d, k, v) ==
    IF dict_has(d, k)
    THEN [i \in 1..Len(d) |-> IF d[i].key = k THEN [key |-> k, val |-> v] ELSE d[i]]
    ELSE Append(d, [key |-> k, val |-> v])

\* the outcome of a call: a returned value, or an exception
Return(v) == [raised |-> FALSE, exc |-> "", value |-> v]
Raise(e) == [raised |-> TRUE, exc |-> e, value |-> <<>>]

(***************************************************************************)
(* The data directory and DataManager.                                     *)
(***************************************************************************)
\* a file as open() and json.load() find it
Missing == [kind |-> "missing", value |-> <<>>]
Malformed == [kind |-> "malformed", value |-> <<>>]
Json(v) == [kind |-> "json", value |-> v]
\* the howdoiplay_json entry of the data directory
NotADir == [isdir |-> FALSE, files |-> <<>>]
Dir(f) == [isdir |-> TRUE, files |-> f]

\* Optional[Any]: None is <<>>, a value v is <<v>>
None == <<>>
Some(v) == <<v>>
\* truth value of an Optional list or dict
truthy(opt) == opt # None /\ DOMAIN opt[1] # {}

\* _load_json without the handler for json.JSONDecodeError
load_json_NoDecodeHandler(file) ==
    CASE file.kind = "json" -> Return(Some(file.value))
      [] file.kind = "missing" -> Return(None)
      [] OTHER -> Raise("JSONDecodeError")

\* DataManager._load_json
load_json(file) ==
    CASE file.kind = "json" -> Return(Some(file.value))
      [] file.kind = "missing" -> Return(None)       \* except FileNotFoundError
      [] file.kind = "malformed" -> Return(None)     \* except json.JSONDecodeError
      [] OTHER -> Raise(file.kind)

\* _load_json(...) or []
or_empty_list(opt) == IF truthy(opt) THEN opt[1] ELSE <<>>

\* the comprehension filtering on 'name' alone, with hero.get('safe_name', '')
RECURSIVE build_hero_name_map_NameOnly(_)
build_hero_name_map_NameOnly(nh) ==
    IF nh = <<>> THEN <<>>
    ELSE LET hero == nh[Len(nh)]
             earlier == build_hero_name_map_NameOnly(SubSeq(nh, 1, Len(nh) - 1))
         IN  IF "name" \in DOMAIN hero
             THEN (hero.name :>
                     [safe_name |-> IF "safe_name" \in DOMAIN hero
                                    THEN hero.safe_name ELSE "",
                      image_path |-> IF "image_path" \in DOMAIN hero
                                     THEN hero.image_path ELSE ""])
                  @@ earlier
             ELSE earlier

\* the dict comprehension that builds hero_name_map; a later entry with the
\* same display name replaces an earlier one
RECURSIVE build_hero_name_map(_)
build_hero_name_map(nh) ==
    IF nh = <<>> THEN <<>>
    ELSE LET hero == nh[Len(nh)]
             earlier == build_hero_name_map(SubSeq(nh, 1, Len(nh) - 1))
         IN  IF "name" \in DOMAIN hero /\ "safe_name" \in DOMAIN hero
             THEN (hero.name :>
                     [safe_name |-> hero.safe_name,
                      image_path |-> IF "image_path" \in DOMAIN hero
                                     THEN hero.image_path ELSE ""])
                  @@ earlier
             ELSE earlier

\* the loop over os.listdir(strategy_path); listing is the order listdir gave
RECURSIVE load_strategies(_, _, _)
load_strategies(files, listing, strategies) ==
    IF listing = <<>> THEN Return(strategies)
    ELSE LET filename == Head(listing) IN
         IF endswith(filename, ".json")
         THEN LET safe_hero_name == replace_all(filename, ".json")
                  r == load_json(files[filename])
              IN  IF r.raised THEN r
                  ELSE load_strategies(files, Tail(listing),
                         IF truthy(r.value)
                         THEN (safe_hero_name :> r.value[1]) @@ strategies
                         ELSE strategies)
         ELSE load_strategies(files, Tail(listing), strategies)

\* os.listdir: the names of the directory in any order
listdir(d) ==
    LET names == DOMAIN d.files
    IN  {l \in [1..Cardinality(names) -> names] :
            \A i, j \in 1..Cardinality(names) : l[i] = l[j] => i = j}

\* DataManager._load_all_data, from the fields __init__ has just set
load_all_data(dir, listing) ==
    LET h == load_json(dir.heroes)
        n == load_json(dir.normalized)
    IN  IF h.raised THEN h
        ELSE IF n.raised THEN n
        ELSE LET nh == or_empty_list(n.value)
                 s == IF dir.howdoiplay.isdir
                      THEN load_strategies(dir.howdoiplay.files, listing, <<>>)
                      ELSE Return(<<>>)
             IN  IF s.raised THEN s
                 ELSE Return([heroes |-> or_empty_list(h.value),
                              normalized_heroes |-> nh,
                              hero_name_map |-> build_hero_name_map(nh),
                              hero_strategies |-> s.value])

(***************************************************************************)
(* Strategy documents, as json.load returns them.                           *)
(***************************************************************************)
DocBkb ==
    [strategies |->
        [general_tips |-> <<"Farm efficiently", "Ward the jungle">>,
         counter_tips |-> <<"Buy Black King Bar">>]]
DocLotus ==
    [strategies |-> [counter_tips |-> <<"LOTUS ORB", "lotus orb">>]]
DocSplit ==
    [strategies |->
        [general_tips |-> <<>>,
         counter_tips |-> <<"Lotus Orb, Black", "King Bar">>]]
DocGeneralOnly ==
    [strategies |->
        [general_tips |-> <<"tip 1", "tip 2", "tip 3", "tip 4", "tip 5", "tip 6">>]]
DocNoStrategies == [hero |-> "Hero A"]
DocEmpty == <<>>
Docs == {DocBkb, DocLotus, DocSplit, DocGeneralOnly, DocNoStrategies, DocEmpty}

(***************************************************************************)
(* AnalysisCore.                                                           *)
(***************************************************************************)
COUNTER_ITEMS == <<
    "Black King Bar", "Linken's Sphere", "Lotus Orb",
    "Manta Style", "Aeon Disk", "Guardian Greaves",
    "Satanic", "Heaven's Halberd", "Butterfly",
    "Solar Crest", "Scythe of Vyse", "Abyssal Blade",
    "Gleipnir", "Rod of Atos", "Orchid Malevolence",
    "Bloodthorn", "Diffusal Blade", "Gem of True Sight",
    "Sentry Ward", "Dust of Appearance", "Monkey King Bar",
    "Blade Mail", "Ghost Scepter", "Eul's Scepter of Divinity",
    "Pipe of Insight", "Eternal Shroud", "Assault Cuirass",
    "Crimson Guard", "Shiva's Guard", "Eye of Skadi",
    "Silver Edge", "Khanda", "Nullifier",
    "Spirit Vessel", "Force Staff", "Hurricane Pike",
    "Blink Dagger", "Dagon", "Hand of Midas"
>>

\* dict.get(key) is falsy: the key is absent or its value is empty
get_is_falsy(d, k) == k \notin DOMAIN d \/ DOMAIN d[k] = {}

\* item.lower() of every item of COUNTER_ITEMS
COUNTER_ITEMS_lower == [i \in 1..Len(COUNTER_ITEMS) |-> lower(COUNTER_ITEMS[i])]

\* the matching items met in the reverse of the catalog order
matching_items_Reversed(counter_tips_text) ==
    LET hits == SelectSeq([i \in 1..Len(COUNTER_ITEMS) |-> Len(COUNTER_ITEMS) + 1 - i],
                          LAMBDA i : str_in(COUNTER_ITEMS_lower[i], counter_tips_text))
    IN  [k \in 1..Len(hits) |-> COUNTER_ITEMS[hits[k]]]

\* the items of COUNTER_ITEMS whose test `item.lower() in counter_tips_text`
\* passes, in the order the loop over COUNTER_ITEMS meets them
matching_items(counter_tips_text) ==
    LET hits == SelectSeq([i \in 1..Len(COUNTER_ITEMS) |-> i],
                          LAMBDA i : str_in(COUNTER_ITEMS_lower[i], counter_tips_text))
    IN  [k \in 1..Len(hits) |-> COUNTER_ITEMS[hits[k]]]

\* The scan of a text is the same in every call, so it is computed once for
\* the counter texts of the documents above and looked up afterwards.
CounterTexts ==
    {lower(join(" ", d.strategies.counter_tips)) :
        d \in {x \in Docs : /\ "strategies" \in DOMAIN x
                            /\ "counter_tips" \in DOMAIN x.strategies}}
MatchingItemsOf == [text \in CounterTexts |-> matching_items(text)]
matching_items_memo(counter_tips_text) ==
    IF counter_tips_text \in CounterTexts
    THEN MatchingItemsOf[counter_tips_text]
    ELSE matching_items(counter_tips_text)

\* counter_items_loop without the test `hero_name not in item_suggestions[item]`
RECURSIVE counter_items_loop_NoDedup(_, _, _)
counter_items_loop_NoDedup(items, hero_name, item_suggestions) ==
    IF items = <<>> THEN item_suggestions
    ELSE LET item == Head(items)
             created == IF ~dict_has(item_suggestions, item)
                        THEN dict_set(item_suggestions, item, <<>>)
                        ELSE item_suggestions
         IN  counter_items_loop_NoDedup(Tail(items), hero_name,
                 dict_set(created, item, Append(dict_get(created, item), hero_name)))

\* the body of the loop over COUNTER_ITEMS for one opponent, run for the
\* items that pass the test
RECURSIVE counter_items_loop(_, _, _)
counter_items_loop(items, hero_name, item_suggestions) ==
    IF items = <<>> THEN item_suggestions
    ELSE LET item == Head(items)
             created == IF ~dict_has(item_suggestions, item)
                        THEN dict_set(item_suggestions, item, <<>>)
                        ELSE item_suggestions
             appended == IF ~list_in(hero_name, dict_get(created, item))
                         THEN dict_set(created, item,
                                       Append(dict_get(created, item), hero_name))
                         ELSE created
         IN  counter_items_loop(Tail(items), hero_name, appended)

\* the loop over enemy_heroes of get_item_suggestions
RECURSIVE item_suggestions_loop(_, _, _, _)
item_suggestions_loop(name_map, strategies, enemy_heroes, item_suggestions) ==
    IF enemy_heroes = <<>> THEN Return(item_suggestions)
    ELSE LET hero_name == Head(enemy_heroes)
             continue == item_suggestions_loop(name_map, strategies,
                             Tail(enemy_heroes), item_suggestions)
         IN  IF get_is_falsy(name_map, hero_name) THEN continue
             ELSE LET safe_name == name_map[hero_name].safe_name IN
                  IF get_is_falsy(strategies, safe_name) THEN continue
                  ELSE LET strategy == strategies[safe_name] IN
                       IF "strategies" \notin DOMAIN strategy
                       THEN Raise("KeyError")
                       ELSE IF "counter_tips" \notin DOMAIN strategy.strategies
                       THEN continue
                       ELSE LET counter_tips_text ==
                                    lower(join(" ", strategy.strategies.counter_tips))
                            IN  item_suggestions_loop(name_map, strategies,
                                    Tail(enemy_heroes),
                                    counter_items_loop(
                                        matching_items_memo(counter_tips_text),
                                        hero_name, item_suggestions))

\* get_item_suggestions starting from a mapping that holds every catalog item
get_item_suggestions_Prefilled(name_map, strategies, enemy_heroes) ==
    item_suggestions_loop(name_map, strategies, enemy_heroes,
        [i \in 1..Len(COUNTER_ITEMS) |-> [key |-> COUNTER_ITEMS[i], val |-> <<>>]])

\* AnalysisCore.get_item_suggestions
get_item_suggestions(name_map, strategies, enemy_heroes) ==
    item_suggestions_loop(name_map, strategies, enemy_heroes, <<>>)

\* AnalysisCore.get_strategic_tips
get_strategic_tips(name_map, strategies, your_hero) ==
    IF get_is_falsy(name_map, your_hero) THEN Return(<<>>)
    ELSE LET safe_name == name_map[your_hero].safe_name IN
         IF get_is_falsy(strategies, safe_name) THEN Return(<<>>)
         ELSE LET strategy == strategies[safe_name] IN
              IF "strategies" \notin DOMAIN strategy THEN Raise("KeyError")
              ELSE IF "general_tips" \in DOMAIN strategy.strategies
              THEN Return(strategy.strategies.general_tips)
              ELSE Return(<<>>)

\* counter_tips_loop indexing hero_name_map[hero_name] instead of using .get
RECURSIVE counter_tips_loop_KeyError(_, _, _, _)
counter_tips_loop_KeyError(name_map, strategies, enemy_heroes, counter_tips) ==
    IF enemy_heroes = <<>> THEN Return(counter_tips)
    ELSE LET hero_name == Head(enemy_heroes)
             continue == counter_tips_loop_KeyError(name_map, strategies,
                             Tail(enemy_heroes), counter_tips)
         IN  IF hero_name \notin DOMAIN name_map THEN Raise("KeyError")
             ELSE LET safe_name == name_map[hero_name].safe_name IN
                  IF get_is_falsy(strategies, safe_name) THEN continue
                  ELSE LET strategy == strategies[safe_name] IN
                       IF "strategies" \notin DOMAIN strategy
                       THEN Raise("KeyError")
                       ELSE IF "counter_tips" \in DOMAIN strategy.strategies
                       THEN counter_tips_loop_KeyError(name_map, strategies,
                                Tail(enemy_heroes),
                                dict_set(counter_tips, hero_name,
                                         strategy.strategies.counter_tips))
                       ELSE continue

\* counter_tips_loop storing strategy['strategies'].get('counter_tips', [])
RECURSIVE counter_tips_loop_Placeholder(_, _, _, _)
counter_tips_loop_Placeholder(name_map, strategies, enemy_heroes, counter_tips) ==
    IF enemy_heroes = <<>> THEN Return(counter_tips)
    ELSE LET hero_name == Head(enemy_heroes)
             continue == counter_tips_loop_Placeholder(name_map, strategies,
                             Tail(enemy_heroes), counter_tips)
         IN  IF get_is_falsy(name_map, hero_name) THEN continue
             ELSE LET safe_name == name_map[hero_name].safe_name IN
                  IF get_is_falsy(strategies, safe_name) THEN continue
                  ELSE LET strategy == strategies[safe_name] IN
                       IF "strategies" \notin DOMAIN strategy
                       THEN Raise("KeyError")
                       ELSE counter_tips_loop_Placeholder(name_map, strategies,
                                Tail(enemy_heroes),
                                dict_set(counter_tips, hero_name,
                                    IF "counter_tips" \in DOMAIN strategy.strategies
                                    THEN strategy.strategies.counter_tips
                                    ELSE <<>>))

\* the loop of get_counter_tips testing 'general_tips', as get_strategic_tips
\* does, and reading the counter tips with .get('counter_tips', [])
RECURSIVE counter_tips_loop_GeneralTipsTest(_, _, _, _)
counter_tips_loop_GeneralTipsTest(name_map, strategies, enemy_heroes, counter_tips) ==
    IF enemy_heroes = <<>> THEN Return(counter_tips)
    ELSE LET hero_name == Head(enemy_heroes)
             continue == counter_tips_loop_GeneralTipsTest(name_map, strategies,
                             Tail(enemy_heroes), counter_tips)
         IN  IF get_is_falsy(name_map, hero_name) THEN continue
             ELSE LET safe_name == name_map[hero_name].safe_name IN
                  IF get_is_falsy(strategies, safe_name) THEN continue
                  ELSE LET strategy == strategies[safe_name] IN
                       IF "strategies" \notin DOMAIN strategy
                       THEN Raise("KeyError")
                       ELSE IF "general_tips" \in DOMAIN strategy.strategies
                       THEN counter_tips_loop_GeneralTipsTest(name_map, strategies,
                                Tail(enemy_heroes),
                                dict_set(counter_tips, hero_name,
                                    IF "counter_tips" \in DOMAIN strategy.strategies
                                    THEN strategy.strategies.counter_tips
                                    ELSE <<>>))
                       ELSE continue

\* the loop over enemy_heroes of get_counter_tips
RECURSIVE counter_tips_loop(_, _, _, _)
counter_tips_loop(name_map, strategies, enemy_heroes, counter_tips) ==
    IF enemy_heroes = <<>> THEN Return(counter_tips)
    ELSE LET hero_name == Head(enemy_heroes)
             continue == counter_tips_loop(name_map, strategies,
                             Tail(enemy_heroes), counter_tips)
         IN  IF get_is_falsy(name_map, hero_name) THEN continue
             ELSE LET safe_name == name_map[hero_name].safe_name IN
                  IF get_is_falsy(strategies, safe_name) THEN continue
                  ELSE LET strategy == strategies[safe_name] IN
                       IF "strategies" \notin DOMAIN strategy
                       THEN Raise("KeyError")
                       ELSE IF "counter_tips" \in DOMAIN strategy.strategies
                       THEN counter_tips_loop(name_map, strategies,
                                Tail(enemy_heroes),
                                dict_set(counter_tips, hero_name,
                                         strategy.strategies.counter_tips))
                       ELSE continue

\* AnalysisCore.get_counter_tips
get_counter_tips(name_map, strategies, enemy_heroes) ==
    counter_tips_loop(name_map, strategies, enemy_heroes, <<>>)

(***************************************************************************)
(* The inputs: data directories the loader may find, and query arguments.  *)
(***************************************************************************)
SeqsUpTo(S, n) == UNION {[1..k -> S] : k \in 0..n}
PartialFunctions(K, V) == UNION {[S -> V] : S \in SUBSET K}

\* entries of normalized_heroes.json
EntryA == [name |-> "Hero A", safe_name |-> "hero_a", image_path |-> "images/hero_a.png"]
EntryB == [name |-> "Hero B", safe_name |-> "hero_b"]
EntryA2 == [name |-> "Hero A", safe_name |-> "hero_b"]
EntryNoName == [safe_name |-> "hero_b", image_path |-> "images/hero_b.png"]
EntryNoSafeName == [name |-> "Hero B", image_path |-> "images/hero_b.png"]
NormalizedEntries == {EntryA, EntryA2, EntryNoName, EntryNoSafeName}

HeroesFiles ==
    {Missing, Malformed, Json(<<[name |-> "Hero A"], [name |-> "Hero B"]>>)}
NormalizedFiles ==
    {Missing, Malformed} \cup {Json(l) : l \in SeqsUpTo(NormalizedEntries, MaxRoster)}
StrategyFiles == {Malformed} \cup {Json(d) : d \in Docs}

BaselineHeroes == Json(<<[name |-> "Hero A"], [name |-> "Hero B"]>>)
BaselineNormalized == Json(<<EntryA, EntryB>>)
BaselineDir ==
    Dir(("hero_a.json" :> Json(DocBkb)) @@ ("hero_b.json" :> Json(DocLotus)))

\* any of the three sources is missing or malformed
DegradedScenarios ==
    {[heroes |-> h, normalized |-> n, howdoiplay |-> d] :
        h \in HeroesFiles,
        n \in {Missing, Malformed, BaselineNormalized},
        d \in {NotADir, BaselineDir}}
\* the entries of the normalized roster vary
RosterScenarios ==
    {[heroes |-> BaselineHeroes, normalized |-> n, howdoiplay |-> BaselineDir] :
        n \in NormalizedFiles}
\* the strategy documents of the two heroes vary
StrategyScenarios ==
    {[heroes |-> BaselineHeroes, normalized |-> BaselineNormalized,
      howdoiplay |-> Dir(f)] :
        f \in {a @@ b :
                a \in PartialFunctions({"hero_a.json"}, StrategyFiles),
                b \in PartialFunctions({"hero_b.json"},
                        {Json(DocBkb), Json(DocLotus), Json(DocNoStrategies)})}}
\* the names in the strategy directory vary
DirectoryScenarios ==
    {[heroes |-> BaselineHeroes, normalized |-> BaselineNormalized,
      howdoiplay |-> Dir(f)] :
        f \in PartialFunctions(
                {"hero_a.json", "hero_a.json.json", "notes.txt"},
                {Malformed, Json(DocLotus)})}
DataDirs ==
    DegradedScenarios \cup RosterScenarios \cup StrategyScenarios \cup DirectoryScenarios

\* display names a caller passes
Names == {"Hero A", "Hero B", "Unknown Hero"}
EnemyLists == SeqsUpTo(Names, MaxEnemies)

(***************************************************************************)
(* The state machine.                                                      *)
(***************************************************************************)
NoCall == [op |-> "none", arg |-> <<>>, result |-> Return(<<>>)]

Init ==
    /\ pc = "new"
    /\ data_dir \in DataDirs
    /\ heroes = <<>>
    /\ normalized_heroes = <<>>
    /\ hero_name_map = <<>>
    /\ hero_strategies = <<>>
    /\ last = NoCall
    /\ repeated = FALSE
    /\ scrollable_frame = <<>>
    /\ analysis = None

\* DataManager(data_path): __init__ and the load it runs
DataManagerInit ==
    /\ pc = "new"
    /\ \E listing \in listdir(data_dir.howdoiplay) :
         LET r == load_all_data(data_dir, listing)
         IN  IF r.raised
             THEN /\ pc' = "crashed"
                  /\ UNCHANGED kb
             ELSE /\ pc' = "ready"
                  /\ heroes' = r.value.heroes
                  /\ normalized_heroes' = r.value.normalized_heroes
                  /\ hero_name_map' = r.value.hero_name_map
                  /\ hero_strategies' = r.value.hero_strategies
    /\ UNCHANGED <<data_dir, last, repeated, ui>>

\* a call of a query, recorded with its outcome
Called(op, arg, result) ==
    /\ last' = [op |-> op, arg |-> arg, result |-> result]
    /\ repeated' = (last.op = op /\ last.arg = arg)

\* analyzer.get_item_suggestions(enemy_heroes)
GetItemSuggestions ==
    /\ pc = "ready"
    /\ \E enemy_heroes \in EnemyLists :
         Called("get_item_suggestions", enemy_heroes,
                get_item_suggestions(hero_name_map, hero_strategies, enemy_heroes))
    /\ UNCHANGED <<pc, data_dir, kb, ui>>

\* analyzer.get_strategic_tips(your_hero)
GetStrategicTips ==
    /\ pc = "ready"
    /\ \E your_hero \in Names :
         Called("get_strategic_tips", <<your_hero>>,
                get_strategic_tips(hero_name_map, hero_strategies, your_hero))
    /\ UNCHANGED <<pc, data_dir, kb, ui>>

\* get_counter_tips taking the documents out of hero_strategies with .pop
GetCounterTips_Pop ==
    /\ pc = "ready"
    /\ \E enemy_heroes \in EnemyLists :
         /\ Called("get_counter_tips", enemy_heroes,
                   get_counter_tips(hero_name_map, hero_strategies, enemy_heroes))
         /\ hero_strategies' =
              [s \in DOMAIN hero_strategies \
                     {hero_name_map[enemy_heroes[i]].safe_name :
                        i \in {j \in 1..Len(enemy_heroes) :
                                 enemy_heroes[j] \in DOMAIN hero_name_map}}
                 |-> hero_strategies[s]]
    /\ UNCHANGED <<pc, data_dir, heroes, normalized_heroes, hero_name_map, ui>>

\* analyzer.get_counter_tips(enemy_heroes)
GetCounterTips ==
    /\ pc = "ready"
    /\ \E enemy_heroes \in EnemyLists :
         Called("get_counter_tips", enemy_heroes,
                get_counter_tips(hero_name_map, hero_strategies, enemy_heroes))
    /\ UNCHANGED <<pc, data_dir, kb, ui>>

Next ==
    \/ DataManagerInit
    \/ GetItemSuggestions
    \/ GetStrategicTips
    \/ GetCounterTips

Spec == Init /\ [][Next]_vars

(***************************************************************************)
(* MainApplication.run_analysis, the handler of the Analyze Draft button.  *)
(* A widget is a record of its kind, its text and the texts of the labels  *)
(* gridded into it; the bullet and emoji prefixes of the texts are left    *)
(* out.                                                                    *)
(***************************************************************************)
\* the characters of the names, by ascending code point
CodePointOrder == " 0123456789" \o UpperCase \o "_" \o LowerCase
ord(c) == CHOOSE i \in 1..Len(CodePointOrder) : SubSeq(CodePointOrder, i, i) = c

\* a < b for str operands
RECURSIVE str_lt(_, _)
str_lt(a, b) ==
    IF b = "" THEN FALSE
    ELSE IF a = "" THEN TRUE
    ELSE IF Head(a) = Head(b) THEN str_lt(Tail(a), Tail(b))
    ELSE ord(Head(a)) < ord(Head(b))

\* sorted(list(a_set))
sorted(S) ==
    CHOOSE l \in [1..Cardinality(S) -> S] :
        \A i, j \in 1..Cardinality(S) : i < j => str_lt(l[i], l[j])
\* sorted, computed once for each set of names
sorted_memo == [S \in SUBSET Names |-> sorted(S)]

\* set(a_list)
set(l) == {l[i] : i \in 1..Len(l)}
\* a_list[:n]
first(l, n) == SubSeq(l, 1, IF Len(l) < n THEN Len(l) ELSE n)

\* for widget in self.scrollable_frame.winfo_children(): widget.destroy()
destroy_children(children) == SelectSeq(children, LAMBDA widget : FALSE)

Widget(kind, text, labels) == [kind |-> kind, text |-> text, labels |-> labels]
error_label ==
    Widget("Label", "Please select your hero and at least one enemy hero.", <<>>)
\* the Item Suggestions frame with one label per item of item_advice
item_frame(item_advice) ==
    Widget("LabelFrame", "Item Suggestions",
           IF item_advice # <<>>
           THEN [i \in 1..Len(item_advice) |->
                   item_advice[i].key \o ": Recommended against "
                       \o join(", ", sorted_memo[set(item_advice[i].val)])]
           ELSE <<"No specific item counters found.">>)
\* the Tips for <your hero> frame, as created and with its labels
your_hero_frame(your_hero, labels) ==
    Widget("LabelFrame", "Tips for " \o your_hero, labels)
your_hero_labels(your_hero_tips) ==
    IF your_hero_tips # <<>> THEN first(your_hero_tips, 5)
    ELSE <<"No tips found.">>
\* one How to Counter <hero> frame per key of counter_tips
hero_frames(counter_tips) ==
    [i \in 1..Len(counter_tips) |->
        Widget("LabelFrame", "How to Counter " \o counter_tips[i].key,
               first(counter_tips[i].val, 3))]

\* a call the handler makes on self.analyzer
Call(op, arg, result) == [op |-> op, arg |-> arg, result |-> result]

\* run_analysis from the texts of the six fields; an exception of a query
\* leaves the handler at the call that raised
run_analysis(name_map, strategies, children, your_hero, enemy_fields) ==
    LET enemy_heroes == sorted_memo[set(enemy_fields) \ {""}]
    IN  IF your_hero = "" \/ enemy_heroes = <<>>
        THEN [children |-> Append(destroy_children(children), error_label),
              calls |-> <<>>]
        ELSE
        LET cleared == destroy_children(children)
            c1 == Call("get_item_suggestions", enemy_heroes,
                       get_item_suggestions(name_map, strategies, enemy_heroes))
        IN  IF c1.result.raised
            THEN [children |-> cleared, calls |-> <<c1>>]
            ELSE
            LET items == Append(cleared, item_frame(c1.result.value))
                c2 == Call("get_strategic_tips", <<your_hero>>,
                           get_strategic_tips(name_map, strategies, your_hero))
            IN  IF c2.result.raised
                THEN [children |-> Append(items, your_hero_frame(your_hero, <<>>)),
                      calls |-> <<c1, c2>>]
                ELSE
                LET tips == Append(items,
                                your_hero_frame(your_hero,
                                    your_hero_labels(c2.result.value)))
                    c3 == Call("get_counter_tips", enemy_heroes,
                               get_counter_tips(name_map, strategies, enemy_heroes))
                IN  IF c3.result.raised
                    THEN [children |-> tips, calls |-> <<c1, c2, c3>>]
                    ELSE [children |-> tips \o hero_frames(c3.result.value),
                          calls |-> <<c1, c2, c3>>]

\* texts the user leaves in the fields: '' is an empty field
YourHeroTexts == {""} \cup Names
EnemyTexts == {"", "Hero B", "Hero A"}
EnemyFields == [1..5 -> EnemyTexts]

\* the latest of the calls, and whether it repeated the one before it
latest(calls) ==
    IF calls = <<>> THEN <<last, repeated>>
    ELSE LET before == IF Len(calls) = 1 THEN last ELSE calls[Len(calls) - 1]
             call == calls[Len(calls)]
         IN  <<call, before.op = call.op /\ before.arg = call.arg>>

\* a click on Analyze Draft
RunAnalysis ==
    /\ pc = "ready"
    /\ \E your_hero \in YourHeroTexts, enemy_fields \in EnemyFields :
         \E r \in {run_analysis(hero_name_map, hero_strategies, scrollable_frame,
                               your_hero, enemy_fields)} :
             /\ scrollable_frame' = r.children
             /\ analysis' = Some([your_hero |-> your_hero,
                                  enemy_texts |-> set(enemy_fields),
                                  calls |-> r.calls])
             /\ last' = latest(r.calls)[1]
             /\ repeated' = latest(r.calls)[2]
    /\ UNCHANGED <<pc, data_dir, kb>>

\* the application starts on a data directory whose roster is whole
AppDataDirs ==
    {[heroes |-> BaselineHeroes, normalized |-> BaselineNormalized,
      howdoiplay |-> Dir(("hero_a.json" :> a) @@ ("hero_b.json" :> b))] :
        a \in {Json(DocBkb), Json(DocGeneralOnly), Json(DocNoStrategies)},
        b \in {Json(DocLotus), Json(DocNoStrategies)}}
AppInit == Init /\ data_dir \in AppDataDirs

\* MainApplication: the loader runs once, then the user clicks
AppNext ==
    \/ DataManagerInit
    \/ RunAnalysis

AppSpec == AppInit /\ [][AppNext]_vars

(***************************************************************************)
(* Properties.                                                             *)
(***************************************************************************)
ItemCall == pc = "ready" /\ last.op = "get_item_suggestions"
TipsCall == pc = "ready" /\ last.op = "get_strategic_tips"
CounterCall == pc = "ready" /\ last.op = "get_counter_tips"
Returned == ~last.result.raised
Output == last.result.value

\* the name resolves through hero_name_map to a loaded strategy document
\* that has the tips field
HasTips(hero_name, field) ==
    /\ hero_name \in DOMAIN hero_name_map
    /\ LET safe_name == hero_name_map[hero_name].safe_name IN
       /\ safe_name \in DOMAIN hero_strategies
       /\ "strategies" \in DOMAIN hero_strategies[safe_name]
       /\ field \in DOMAIN hero_strategies[safe_name].strategies
TipsOf(hero_name, field) ==
    hero_strategies[hero_name_map[hero_name].safe_name].strategies[field]
\* the counter tips of the hero, joined with single spaces and lower-cased
CounterText(hero_name) == lower(join(" ", TipsOf(hero_name, "counter_tips")))
\* COUNTER_ITEMS[k], lower-cased, is a substring of the hero's counter text
Mentions(hero_name, k) ==
    /\ HasTips(hero_name, "counter_tips")
    /\ str_in(lower(COUNTER_ITEMS[k]), CounterText(hero_name))
Positions(sub, text) ==
    {i \in 0..(Len(text) - Len(sub)) : SubSeq(text, i + 1, i + Len(sub)) = sub}
Count(x, l) == Cardinality({i \in 1..Len(l) : l[i] = x})
Items == 1..Len(COUNTER_ITEMS)

\* C1: an opponent whose joined, lower-cased counter tips contain an item's
\* lower-cased name is listed under that item exactly once in the output of
\* get_item_suggestions, however often the name occurs in the text and
\* however often the opponent is repeated in the input list.
C1_ListedExactlyOnce ==
    (ItemCall /\ Returned) =>
        \A i \in 1..Len(last.arg), k \in Items :
            Mentions(last.arg[i], k) =>
                /\ Count(COUNTER_ITEMS[k], dict_keys(Output)) = 1
                /\ Count(last.arg[i], dict_get(Output, COUNTER_ITEMS[k])) = 1

\* the opponent is passed twice and its text contains the item twice
C1_Witness ==
    /\ ItemCall /\ Returned
    /\ Len(last.arg) >= 2 /\ last.arg[1] = last.arg[2]
    /\ \E k \in Items :
        /\ Mentions(last.arg[1], k)
        /\ Cardinality(Positions(lower(COUNTER_ITEMS[k]), CounterText(last.arg[1]))) >= 2
        /\ dict_get(Output, COUNTER_ITEMS[k]) = <<last.arg[1]>>

\* C2: every key of the output of get_item_suggestions is a catalog item
\* mapped to a non-empty list of input opponents whose counter text contains
\* it; an item no opponent matched is not a key.
C2_KeysAreMatchedItems ==
    (ItemCall /\ Returned) =>
        /\ \A j \in 1..Len(Output) :
            /\ \E k \in Items : COUNTER_ITEMS[k] = Output[j].key
            /\ Output[j].val # <<>>
            /\ \A n \in 1..Len(Output[j].val) :
                /\ list_in(Output[j].val[n], last.arg)
                /\ \E k \in Items :
                    /\ COUNTER_ITEMS[k] = Output[j].key
                    /\ Mentions(Output[j].val[n], k)
        /\ \A k \in Items :
            (\A i \in 1..Len(last.arg) : ~Mentions(last.arg[i], k))
                => ~dict_has(Output, COUNTER_ITEMS[k])

\* one item is a key while another item, matched by no opponent, is not
C2_Witness ==
    /\ ItemCall /\ Returned
    /\ Output # <<>>
    /\ \E i \in 1..Len(last.arg) :
        /\ HasTips(last.arg[i], "counter_tips")
        /\ \A k \in Items : ~Mentions(last.arg[i], k) \/ dict_has(Output, COUNTER_ITEMS[k])
    /\ \E k \in Items : ~dict_has(Output, COUNTER_ITEMS[k])

\* the names of the list that are keys of hero_name_map, in order
Known(names) == SelectSeq(names, LAMBDA n : n \in DOMAIN hero_name_map)

\* C3: a name that is not a key of hero_name_map appears in no list of
\* get_item_suggestions's output and is no key of get_counter_tips's output,
\* and the outcome of either operation is that of the list without such names.
C3_UnknownNamesIgnored ==
    /\ ItemCall =>
        /\ last.result =
             get_item_suggestions(hero_name_map, hero_strategies, Known(last.arg))
        /\ \A j \in 1..Len(Output) : \A n \in 1..Len(Output[j].val) :
             Output[j].val[n] \in DOMAIN hero_name_map
    /\ CounterCall =>
        /\ last.result =
             get_counter_tips(hero_name_map, hero_strategies, Known(last.arg))
        /\ \A j \in 1..Len(Output) : Output[j].key \in DOMAIN hero_name_map

\* an unknown name was passed next to a known one that has counter tips
C3_Witness ==
    /\ CounterCall /\ Returned
    /\ \E i \in 1..Len(last.arg) : last.arg[i] \notin DOMAIN hero_name_map
    /\ Output # <<>>

\* C4: get_strategic_tips returns the hero's general-tips list unchanged when
\* the name resolves to a document that has general tips, and in every other
\* case returns an empty sequence without raising.
C4_GeneralTipsOrEmpty ==
    TipsCall =>
        last.result = IF HasTips(last.arg[1], "general_tips")
                      THEN Return(TipsOf(last.arg[1], "general_tips"))
                      ELSE Return(<<>>)

\* C5: the keys of get_counter_tips's output are exactly the input names that
\* resolve to a document with counter tips, each mapped to that document's
\* counter-tip list unchanged; other opponents get no entry.
C5_CounterTipsEntries ==
    (CounterCall /\ Returned) =>
        /\ {Output[j].key : j \in 1..Len(Output)} =
             {last.arg[i] : i \in {n \in 1..Len(last.arg) :
                                     HasTips(last.arg[n], "counter_tips")}}
        /\ \A j \in 1..Len(Output) :
             /\ Output[j].val = TipsOf(Output[j].key, "counter_tips")
             /\ Count(Output[j].key, dict_keys(Output)) = 1

\* one opponent has a document without counter tips, another has them
C5_Witness ==
    /\ CounterCall /\ Returned
    /\ \E i \in 1..Len(last.arg) :
        /\ last.arg[i] \in DOMAIN hero_name_map
        /\ hero_name_map[last.arg[i]].safe_name \in DOMAIN hero_strategies
        /\ ~HasTips(last.arg[i], "counter_tips")
    /\ Len(Output) = 1

\* C6: no query raises on missing data: a hero whose loaded document lacks a
\* tip field, or the nested 'strategies' record, counts as having no tips.
C6_NoRaiseOnMissingData ==
    (pc = "ready" /\ last.op # "none") =>
        /\ Returned
        /\ TipsCall /\ ~HasTips(last.arg[1], "general_tips") => Output = <<>>
        /\ CounterCall =>
             \A j \in 1..Len(Output) : HasTips(Output[j].key, "counter_tips")

\* the source could not be read or parsed
Lost(file) == file.kind \in {"missing", "malformed"}

\* C7: constructing DataManager never raises, whichever sources are missing
\* or malformed: each such source leaves an empty collection, and with no
\* strategies loaded every query returns an empty result.
C7_LoadingNeverFails ==
    /\ pc # "crashed"
    /\ pc = "new" => ENABLED DataManagerInit
    /\ pc = "ready" =>
        /\ Lost(data_dir.heroes) => heroes = <<>>
        /\ Lost(data_dir.normalized) =>
             normalized_heroes = <<>> /\ hero_name_map = <<>>
        /\ ~data_dir.howdoiplay.isdir => hero_strategies = <<>>
        /\ (\A f \in DOMAIN data_dir.howdoiplay.files :
                Lost(data_dir.howdoiplay.files[f])) => hero_strategies = <<>>
        /\ (hero_strategies = <<>> /\ last.op # "none") => last.result = Return(<<>>)

\* loaded without roster file and strategy directory, then queried for a
\* hero the normalized roster knows
C7_Witness ==
    /\ pc = "ready"
    /\ Lost(data_dir.heroes) /\ ~data_dir.howdoiplay.isdir
    /\ ItemCall
    /\ \E i \in 1..Len(last.arg) : last.arg[i] \in DOMAIN hero_name_map
    /\ last.result = Return(<<>>)

\* C8: a query leaves heroes, normalized_heroes, hero_name_map and
\* hero_strategies as loading left them, and the same operation called again
\* with the same input gives the same outcome.
C8_QueriesArePure ==
    [][pc = "ready" =>
        /\ kb' = kb
        /\ (last'.op = last.op /\ last'.arg = last.arg)
             => last'.result = last.result]_vars

\* a call that produced something was made twice in a row
C8_Witness ==
    /\ pc = "ready" /\ repeated
    /\ last.op # "none" /\ Returned /\ Output # <<>>

CatalogIndex(item) == CHOOSE k \in Items : COUNTER_ITEMS[k] = item
\* the place in the input of the first opponent that matches the item
FirstMatch(names, k) ==
    CHOOSE i \in 1..Len(names) :
        /\ Mentions(names[i], k)
        /\ \A j \in 1..(i - 1) : ~Mentions(names[j], k)
Reorderings(l) ==
    {[i \in 1..Len(l) |-> l[p[i]]] :
        p \in {q \in [1..Len(l) -> 1..Len(l)] :
                 \A i, j \in 1..Len(l) : q[i] = q[j] => i = j}}
AsSets(d) == {<<d[j].key, {d[j].val[n] : n \in 1..Len(d[j].val)}>> : j \in 1..Len(d)}

\* C9 as stated: the keys of get_item_suggestions's output appear in the
\* order they have in COUNTER_ITEMS, whatever the order of the input.
C9_KeysInCatalogOrder ==
    (ItemCall /\ Returned) =>
        \A p, q \in 1..Len(Output) :
            p < q => CatalogIndex(Output[p].key) < CatalogIndex(Output[q].key)

\* C9 amended: the keys appear in the order in which they are first matched:
\* by the place in the input of the first opponent that matches the item,
\* and in COUNTER_ITEMS order among the items first matched by the same
\* opponent; a permutation of the input gives the same items with the same
\* opponents under each.
C9_KeysInFirstMatchOrder ==
    (ItemCall /\ Returned) =>
        /\ \A p, q \in 1..Len(Output) :
            p < q =>
                LET kp == CatalogIndex(Output[p].key)
                    kq == CatalogIndex(Output[q].key)
                    fp == FirstMatch(last.arg, kp)
                    fq == FirstMatch(last.arg, kq)
                IN  fp < fq \/ (fp = fq /\ kp < kq)
        /\ \A l \in Reorderings(last.arg) :
            LET r == get_item_suggestions(hero_name_map, hero_strategies, l)
            IN  ~r.raised /\ AsSets(r.value) = AsSets(Output)

\* two opponents whose items come out against the catalog order
C9_Witness ==
    /\ ItemCall /\ Returned
    /\ Len(last.arg) >= 2
    /\ \E p, q \in 1..Len(Output) :
        p < q /\ CatalogIndex(Output[p].key) > CatalogIndex(Output[q].key)

\* the roster entry carries both 'name' and 'safe_name'
Complete(hero) == "name" \in DOMAIN hero /\ "safe_name" \in DOMAIN hero

\* C10: after loading, the keys of hero_name_map are exactly the display
\* names of the normalized roster entries that carry both 'name' and
\* 'safe_name', and each key maps to the safe_name and image path (empty
\* when absent) of an entry with that display name.
C10_NameMapFromCompleteEntries ==
    pc = "ready" =>
        LET complete == {i \in 1..Len(normalized_heroes) :
                            Complete(normalized_heroes[i])}
        IN  /\ DOMAIN hero_name_map = {normalized_heroes[i].name : i \in complete}
            /\ \A n \in DOMAIN hero_name_map :
                \E i \in complete :
                    /\ normalized_heroes[i].name = n
                    /\ hero_name_map[n].safe_name = normalized_heroes[i].safe_name
                    /\ hero_name_map[n].image_path =
                         IF "image_path" \in DOMAIN normalized_heroes[i]
                         THEN normalized_heroes[i].image_path ELSE ""

\* loaded from a roster with an entry lacking a field and a complete entry
\* without image path
C10_Witness ==
    /\ pc = "ready"
    /\ \E i \in 1..Len(normalized_heroes) : ~Complete(normalized_heroes[i])
    /\ \E n \in DOMAIN hero_name_map : hero_name_map[n].image_path = ""

\* the file name without its trailing '.json'
stem(filename) == SubSeq(filename, 1, Len(filename) - Len(".json"))

\* C11: after loading, every file of the strategy directory whose name ends
\* in '.json' and that parses is in hero_strategies under its name minus the
\* trailing '.json', with its document as the value; files that do not
\* parse and files of other names add nothing and take nothing away. This
\* includes a file holding an empty document and a name with '.json' twice.
C11_StrategyKeyedByStem ==
    (pc = "ready" /\ data_dir.howdoiplay.isdir) =>
        LET files == data_dir.howdoiplay.files
            parsed == {f \in DOMAIN files :
                          endswith(f, ".json") /\ files[f].kind = "json"}
        IN  /\ DOMAIN hero_strategies = {stem(f) : f \in parsed}
            /\ \A f \in parsed : hero_strategies[stem(f)] = files[f].value

\* the operations the latest run_analysis called, in call order
CalledOps == [i \in 1..Len(analysis[1].calls) |-> analysis[1].calls[i].op]

\* C12: after run_analysis, when the chosen hero is empty or all five
\* opponent fields are empty no query was called and the frame holds only
\* the validation message; otherwise get_item_suggestions,
\* get_strategic_tips and get_counter_tips were each called once, in that
\* order, the first and the last with the list of the distinct non-empty
\* opponent texts; the frame holds no widget of an earlier run.
C12_RunAnalysisCallsQueries ==
    analysis # None =>
        LET a == analysis[1] IN
        IF a.your_hero = "" \/ a.enemy_texts \subseteq {""}
        THEN /\ a.calls = <<>>
             /\ scrollable_frame = <<error_label>>
        ELSE /\ CalledOps = <<"get_item_suggestions", "get_strategic_tips",
                              "get_counter_tips">>
             /\ a.calls[2].arg = <<a.your_hero>>
             /\ a.calls[1].arg = a.calls[3].arg
             /\ LET enemy_heroes == a.calls[1].arg
                IN  /\ set(enemy_heroes) = a.enemy_texts \ {""}
                    /\ Len(enemy_heroes) = Cardinality(set(enemy_heroes))
             /\ \A i \in 1..Len(scrollable_frame) :
                    /\ scrollable_frame[i] # error_label
                    /\ scrollable_frame[i].text = "Item Suggestions" <=> i = 1

\* the names listed under the items of an item_suggestions mapping
Suggested(item_suggestions) ==
    UNION {set(item_suggestions[j].val) : j \in 1..Len(item_suggestions)}

\* C13: for the same knowledge base and opponent list, every hero listed
\* under an item of get_item_suggestions's output is a key of
\* get_counter_tips's output, which get_counter_tips returns whenever
\* get_item_suggestions does; so a hero that is no key of get_counter_tips's
\* output is listed under no item.
C13_SuggestedAreCounterKeys ==
    /\ (ItemCall /\ Returned) =>
         LET counter_tips == get_counter_tips(hero_name_map, hero_strategies, last.arg)
         IN  /\ ~counter_tips.raised
             /\ \A hero \in Suggested(Output) : dict_has(counter_tips.value, hero)
    /\ (CounterCall /\ Returned) =>
         LET item_suggestions ==
                 get_item_suggestions(hero_name_map, hero_strategies, last.arg)
         IN  /\ ~item_suggestions.raised
             /\ \A hero \in set(last.arg) :
                    ~dict_has(Output, hero) => hero \notin Suggested(item_suggestions.value)

\* get_item_suggestions listed one opponent of the list under an item, and
\* another opponent of the roster, loaded without counter tips, under none
C13_Witness ==
    /\ ItemCall /\ Returned
    /\ Suggested(Output) # {}
    /\ \E hero \in set(last.arg) :
         /\ hero \in DOMAIN hero_name_map
         /\ hero_name_map[hero].safe_name \in DOMAIN hero_strategies
         /\ hero \notin Suggested(Output)
         /\ ~dict_has(get_counter_tips(hero_name_map, hero_strategies, last.arg).value,
                      hero)

====
